---- MODULE Spec2Model ----
(***************************************************************************)
(* A model of src/main.py, the weather command-line tool: one run of       *)
(* main() from argument parsing to process exit, with the HTTP response,   *)
(* the environment key and the command line as nondeterministic inputs.    *)
(***************************************************************************)
EXTENDS Integers, Sequences, FiniteSets, TLC

VARIABLES pc, env_key, args, API_KEY, gets, request, resp, data, console, exit_code, exc

vars == <<pc, env_key, args, API_KEY, gets, request, resp, data, console, exit_code, exc>>

(***************************************************************************)
(* Bounds of the model.                                                    *)
(***************************************************************************)
\* The observations of Sample that a response may carry.
NumSamples == 2
\* The largest number of words of the positional city argument.
MaxCityWords == 1

(***************************************************************************)
(* Python values: dynamically typed, so every value carries its type.      *)
(***************************************************************************)
PyNone == [t |-> "none"]
PyInt(n) == [t |-> "int", v |-> n]
\* A float with one decimal digit, held in tenths: PyFloat(215) is 21.5.
PyFloat(n) == [t |-> "float", v |-> n]
PyStr(s) == [t |-> "str", v |-> s]
PyList(s) == [t |-> "list", v |-> s]
PyDict(f) == [t |-> "dict", v |-> f]
\* The dict with no keys.
EmptyMap == <<>>

\* bool(x)
Truthy(x) ==
  CASE x.t = "none" -> FALSE
    [] x.t = "int" -> x.v # 0
    [] x.t = "float" -> x.v # 0
    [] x.t = "str" -> x.v # ""
    [] x.t = "list" -> Len(x.v) > 0
    [] x.t = "dict" -> DOMAIN x.v # {}

\* d.get(k, default), for a value d that is a dict.
Get(d, k, default) == IF k \in DOMAIN d.v THEN d.v[k] ELSE default

Abs(n) == IF n < 0 THEN -n ELSE n

\* str(x), as an f-string's {x} renders it, for the values that reach one.
PyFormat(x) ==
  CASE x.t = "none" -> "None"
    [] x.t = "int" -> ToString(x.v)
    [] x.t = "float" -> (IF x.v < 0 THEN "-" ELSE "") \o ToString(Abs(x.v) \div 10)
                          \o "." \o ToString(Abs(x.v) % 10)
    [] x.t = "str" -> x.v

(***************************************************************************)
(* Text as characters, for str.title(), str.lower() and the "in" test.     *)
(***************************************************************************)
LowerCase == <<"a","b","c","d","e","f","g","h","i","j","k","l","m",
               "n","o","p","q","r","s","t","u","v","w","x","y","z">>
UpperCase == <<"A","B","C","D","E","F","G","H","I","J","K","L","M",
               "N","O","P","Q","R","S","T","U","V","W","X","Y","Z">>

IndexIn(c, alphabet) == CHOOSE i \in DOMAIN alphabet : alphabet[i] = c
IsLower(c) == \E i \in DOMAIN LowerCase : LowerCase[i] = c
IsUpper(c) == \E i \in DOMAIN UpperCase : UpperCase[i] = c
IsCased(c) == IsLower(c) \/ IsUpper(c)
ToLower(c) == IF IsUpper(c) THEN LowerCase[IndexIn(c, UpperCase)] ELSE c
ToUpper(c) == IF IsLower(c) THEN UpperCase[IndexIn(c, LowerCase)] ELSE c

\* The characters of the strings a description can be.
Spell(s) ==
  CASE s = "clear sky" -> <<"c","l","e","a","r"," ","s","k","y">>
    [] s = "few clouds" -> <<"f","e","w"," ","c","l","o","u","d","s">>
    [] s = "light Rain" -> <<"l","i","g","h","t"," ","R","a","i","n">>
    [] s = "N/A" -> <<"N","/","A">>

RECURSIVE Join(_)
Join(cs) == IF cs = <<>> THEN "" ELSE Head(cs) \o Join(Tail(cs))

\* str.title(): a cased character is upper case after an uncased one (or at
\* the start) and lower case after a cased one.
TitleChars(cs) ==
  [i \in DOMAIN cs |->
     IF i = 1 \/ ~IsCased(cs[i - 1]) THEN ToUpper(cs[i]) ELSE ToLower(cs[i])]

LowerChars(cs) == [i \in DOMAIN cs |-> ToLower(cs[i])]

\* needle in hay
Contains(hay, needle) ==
  \E i \in 1..(Len(hay) - Len(needle) + 1) :
     SubSeq(hay, i, i + Len(needle) - 1) = needle

(***************************************************************************)
(* format_time: datetime.fromtimestamp(ts + tz_offset, timezone.utc)       *)
(* .strftime("%Y-%m-%d %H:%M"), computed from the count of seconds.        *)
(***************************************************************************)
Pad2(n) == IF n < 10 THEN "0" \o ToString(n) ELSE ToString(n)

\* The proleptic Gregorian date of the day `days` days after 1970-01-01.
CivilFromDays(days) ==
  LET z == days + 719468
      era == z \div 146097
      doe == z - era * 146097
      yoe == (doe - doe \div 1460 + doe \div 36524 - doe \div 146096) \div 365
      doy == doe - (365 * yoe + yoe \div 4 - yoe \div 100)
      mp == (5 * doy + 2) \div 153
      d == doy - (153 * mp + 2) \div 5 + 1
      m == IF mp < 10 THEN mp + 3 ELSE mp - 9
      y == yoe + era * 400 + (IF m <= 2 THEN 1 ELSE 0)
  IN  [year |-> y, month |-> m, day |-> d]

Strftime(secs) ==
  LET date == CivilFromDays(secs \div 86400)
      rem == secs % 86400
  IN  ToString(date.year) \o "-" \o Pad2(date.month) \o "-" \o Pad2(date.day)
        \o " " \o Pad2(rem \div 3600) \o ":" \o Pad2((rem % 3600) \div 60)

\* A plausible slip: a missing timestamp is read as 0 (as dt's default is)
\* instead of yielding the placeholder.
format_time_NoneAsZero(ts, tz_offset) ==
  IF ts.t = "none" THEN Strftime(tz_offset.v) ELSE Strftime(ts.v + tz_offset.v)

format_time(ts, tz_offset) ==
  IF ts.t = "none" THEN "N/A" ELSE Strftime(ts.v + tz_offset.v)

(***************************************************************************)
(* pretty_render: what it prints, in order, and the exception it raises.   *)
(***************************************************************************)
\* console.print(text)
Printed(text) == [kind |-> "text", text |-> text]

\* console.print(f"[bold red]{label}[/bold red] {text}")
Message(label, text) == [kind |-> "message", style |-> "bold red", label |-> label, text |-> text]

\* A plausible slip: the Fahrenheit suffix for every mode but metric.
temp_unit_NoKelvin(units) == IF units = "metric" THEN "°C" ELSE "°F"

temp_unit(units) ==
  IF units = "metric" THEN "°C" ELSE IF units = "imperial" THEN "°F" ELSE "K"

wind_unit(units) == IF units # "imperial" THEN "m/s" ELSE "mph"

\* weather_desc is held as its characters.
condition_style(weather_desc) ==
  LET lower == LowerChars(weather_desc)
  IN  IF Contains(lower, <<"c","l","o","u","d">>) THEN "bold magenta"
      ELSE IF Contains(lower, <<"c","l","e","a","r">>) THEN "bold yellow"
      ELSE "bold cyan"

pretty_render(d, units) ==
  IF ~Truthy(d) THEN [out |-> <<>>, exc |-> "none"]
  ELSE IF d.t # "dict" THEN [out |-> <<>>, exc |-> "AttributeError"]
  ELSE
    LET name == Get(d, "name", PyStr("Unknown"))
        sysinfo == Get(d, "sys", PyDict(EmptyMap))
        country == Get(sysinfo, "country", PyStr(""))
        weather_desc ==
          TitleChars(Spell(
            Get(Get(d, "weather", PyList(<<PyDict(EmptyMap)>>)).v[1],
                "description", PyStr("N/A")).v))
        main == Get(d, "main", PyDict(EmptyMap))
        temp == Get(main, "temp", PyStr("N/A"))
        feels == Get(main, "feels_like", PyStr("N/A"))
        humidity == Get(main, "humidity", PyStr("N/A"))
        wind == Get(d, "wind", PyDict(EmptyMap))
        wind_speed == Get(wind, "speed", PyStr("N/A"))
        tz_offset == Get(d, "timezone", PyInt(0))
        dt == Get(d, "dt", PyInt(0))
        sunrise == Get(sysinfo, "sunrise", PyNone)
        sunset == Get(sysinfo, "sunset", PyNone)
        \* The title's dash is U+2014 in the source; the module is kept to
        \* characters SANY reads, so it is written "-" here.
        header ==
          [kind |-> "panel",
           title |-> " Weather - " \o PyFormat(name) \o ", " \o PyFormat(country) \o " ",
           time |-> " Local time (approx): " \o format_time(dt, tz_offset) \o " "]
        condition ==
          [kind |-> "condition", text |-> Join(weather_desc),
           style |-> condition_style(weather_desc)]
        table ==
          [kind |-> "table",
           rows |-> <<
             <<"Temperature", PyFormat(temp) \o " " \o temp_unit(units)
                 \o " (Feels like " \o PyFormat(feels) \o temp_unit(units) \o ")">>,
             <<"Humidity", PyFormat(humidity) \o "%">>,
             <<"Wind Speed", PyFormat(wind_speed) \o " " \o wind_unit(units)>>,
             <<"Sunrise", format_time(sunrise, tz_offset)>>,
             <<"Sunset", format_time(sunset, tz_offset)>> >>]
    IN  [out |-> <<header, condition, [kind |-> "blank"], table, Printed("\n")>>,
         exc |-> "none"]

(***************************************************************************)
(* Inputs: the environment, the command line and what the network answers. *)
(***************************************************************************)
BASE_URL == "https://api.openweathermap.org/data/2.5/weather"

\* os.getenv("OPENWEATHER_API_KEY") after load_dotenv(): unset, empty or set.
EnvKeys == {PyNone, PyStr(""), PyStr("ENVKEY")}

\* args.apikey: the flag not given, given empty, given a key.
ArgKeys == {PyNone, PyStr(""), PyStr("ARGKEY")}

UnitChoices == {"metric", "imperial", "standard"}

CityWords == <<"New", "York", "City">>

ArgsSet ==
  [city : {SubSeq(CityWords, 1, n) : n \in 1..MaxCityWords},
   units : UnitChoices,
   apikey : ArgKeys]

\* " ".join(words)
RECURSIVE JoinWords(_)
JoinWords(words) ==
  IF Len(words) = 1 THEN words[1]
  ELSE words[1] \o " " \o JoinWords(Tail(words))

\* The observations a body is built from.
Sample(i) ==
  CASE i = 1 -> [name |-> PyStr("Bengaluru"), country |-> PyStr("IN"),
                 description |-> PyStr("few clouds"),
                 temp |-> PyInt(28), feels_like |-> PyFloat(302),
                 humidity |-> PyInt(74), speed |-> PyInt(3),
                 timezone |-> PyInt(19800), dt |-> PyInt(1700000000),
                 sunrise |-> PyInt(1699923000), sunset |-> PyInt(1699964400)]
    [] i = 2 -> [name |-> PyStr("London"), country |-> PyStr("GB"),
                 description |-> PyStr("clear sky"),
                 temp |-> PyFloat(215), feels_like |-> PyFloat(198),
                 humidity |-> PyInt(60), speed |-> PyFloat(41),
                 timezone |-> PyInt(0), dt |-> PyInt(1709164800),
                 sunrise |-> PyInt(1709189160), sunset |-> PyInt(1709227500)]
    [] OTHER -> [name |-> PyStr("New York"), country |-> PyStr("US"),
                 description |-> PyStr("light Rain"),
                 temp |-> PyFloat(-35), feels_like |-> PyFloat(-70),
                 humidity |-> PyInt(81), speed |-> PyFloat(123),
                 timezone |-> PyInt(-18000), dt |-> PyInt(1700010000),
                 sunrise |-> PyInt(1700048400), sunset |-> PyInt(1700084100)]

\* A key that may be absent from a JSON object.
Opt(k, v) == {EmptyMap, k :> v}

\* A sub-object that may be absent, or hold any subset of its keys.
SysObjects(o) ==
  {PyDict(a @@ b @@ c) : a \in Opt("country", o.country),
                         b \in Opt("sunrise", o.sunrise),
                         c \in Opt("sunset", o.sunset)}

MainObjects(o) ==
  {PyDict(a @@ b @@ c) : a \in Opt("temp", o.temp),
                         b \in Opt("feels_like", o.feels_like),
                         c \in Opt("humidity", o.humidity)}

WindObjects(o) == {PyDict(a) : a \in Opt("speed", o.speed)}

WeatherLists(o) == {PyList(<<PyDict(a)>>) : a \in Opt("description", o.description)}

OptIn(k, S) == {EmptyMap} \cup {k :> v : v \in S}

\* The JSON objects of one observation with any subset of its fields absent;
\* "cod" is always there, so the object is never the empty one.
Observations(o) ==
  {PyDict(("cod" :> PyInt(200)) @@ n @@ s @@ w @@ m @@ wd @@ tz @@ d) :
     n \in Opt("name", o.name),
     s \in OptIn("sys", SysObjects(o)),
     w \in OptIn("weather", WeatherLists(o)),
     m \in OptIn("main", MainObjects(o)),
     wd \in OptIn("wind", WindObjects(o)),
     tz \in Opt("timezone", o.timezone),
     d \in Opt("dt", o.dt)}

\* The observation with every field present.
FullObservation(o) ==
  PyDict(("cod" :> PyInt(200))
         @@ ("name" :> o.name)
         @@ ("sys" :> PyDict(("country" :> o.country) @@ ("sunrise" :> o.sunrise)
                             @@ ("sunset" :> o.sunset)))
         @@ ("weather" :> PyList(<<PyDict("description" :> o.description)>>))
         @@ ("main" :> PyDict(("temp" :> o.temp) @@ ("feels_like" :> o.feels_like)
                              @@ ("humidity" :> o.humidity)))
         @@ ("wind" :> PyDict("speed" :> o.speed))
         @@ ("timezone" :> o.timezone)
         @@ ("dt" :> o.dt))

\* A response body: text that is not JSON, or the value it parses to.
NotJson == [valid |-> FALSE]
Json(v) == [valid |-> TRUE, value |-> v]

\* Bodies that are not observations: not JSON, null, {}, [], [1].
PlainBodies ==
  {NotJson, Json(PyNone), Json(PyDict(EmptyMap)), Json(PyList(<<>>)),
   Json(PyList(<<PyInt(1)>>))}

ErrorBodies ==
  PlainBodies \cup
  {Json(PyDict(("cod" :> PyStr("404")) @@ ("message" :> PyStr("city not found")))),
   Json(PyDict(("cod" :> PyInt(401)) @@ ("message" :> PyStr("Invalid API key.")))),
   Json(PyDict("cod" :> PyInt(500)))}

\* The first observation with every subset of its fields absent.
ObservationBodies == {Json(b) : b \in Observations(Sample(1))}

\* Every observation with all its fields present.
FullBodies == {Json(FullObservation(Sample(i))) : i \in 1..NumSamples}

Response(status, body) == [kind |-> "response", status |-> status, body |-> body]

\* What requests.get can return: a final status with a body.
Responses ==
  {Response(200, b) : b \in PlainBodies \cup ObservationBodies \cup FullBodies}
    \cup {Response(st, b) : st \in {201, 304}, b \in PlainBodies \cup FullBodies}
    \cup {Response(st, b) : st \in {401, 404, 500}, b \in ErrorBodies \cup FullBodies}

\* What requests.get can raise: subclasses of RequestException.
Failures ==
  {[kind |-> "failure", error |-> "ReadTimeout", text |-> "Read timed out. (read timeout=10)"],
   [kind |-> "failure", error |-> "ConnectionError", text |-> "Failed to establish a new connection"]}

\* resp.raise_for_status() raises HTTPError for a 4xx or 5xx status only.
RaisesForStatus(status) == 400 <= status /\ status < 600

NoException == [type |-> "none", raised_in |-> "none"]

\* resp before requests.get has returned or raised.
NoResponse == [kind |-> "none"]

(***************************************************************************)
(* The run.  pc is the position of the one thread:                         *)
(*   "main"     main() entered, the command line parsed by argparse        *)
(*   "fetch"    fetch_current_weather entered                              *)
(*   "get"      requests.get issued, its outcome awaited                   *)
(*   "fetched"  fetch_current_weather returned to main                     *)
(*   "done"     main returned: the process exits with code 0               *)
(*   "exited"   sys.exit(1) was called                                     *)
(*   "crashed"  an exception reached the top level: traceback, code 1      *)
(* exit_code is -1 while the process runs.                                 *)
(***************************************************************************)
Init ==
  /\ pc = "main"
  /\ env_key \in EnvKeys
  /\ args \in ArgsSet
  /\ API_KEY = env_key
  /\ gets = 0
  /\ request = PyNone
  /\ resp = NoResponse
  /\ data = PyNone
  /\ console = <<>>
  /\ exit_code = -1
  /\ exc = NoException

\* A plausible slip: without "global API_KEY" the assignment is to a local
\* name and the module's key is left as it was.
OverrideKey_Ignored(apikey, current) == current

\* if args.apikey: API_KEY = args.apikey
OverrideKey(apikey, current) == IF Truthy(apikey) THEN apikey ELSE current

main_parse_args ==
  /\ pc = "main"
  /\ API_KEY' = OverrideKey(args.apikey, API_KEY)
  /\ pc' = "fetch"
  /\ UNCHANGED <<env_key, args, gets, request, resp, data, console, exit_code, exc>>

\* A plausible slip: the key check is dropped, the request sent without a key.
KeyMissing_Never(key) == FALSE

\* if not API_KEY
KeyMissing(key) == ~Truthy(key)

fetch_missing_key ==
  /\ pc = "fetch"
  /\ KeyMissing(API_KEY)
  /\ console' = Append(console,
                  Message("ERROR:", "OPENWEATHER_API_KEY not set in .env"))
  /\ exit_code' = 1
  /\ pc' = "exited"
  /\ UNCHANGED <<env_key, args, API_KEY, gets, request, resp, data, exc>>

fetch_send_get ==
  /\ pc = "fetch"
  /\ ~KeyMissing(API_KEY)
  /\ request' = [url |-> BASE_URL,
                 params |-> [q |-> JoinWords(args.city), appid |-> API_KEY,
                             units |-> args.units],
                 timeout |-> 10]
  /\ gets' = gets + 1
  /\ pc' = "get"
  /\ UNCHANGED <<env_key, args, API_KEY, resp, data, console, exit_code, exc>>

\* A plausible slip: a transport failure is reported under the API label.
NetworkErrorLabel_AsApi == "API error:"

NetworkErrorLabel == "Network error:"

\* A plausible slip: the request is sent again after a transport failure.
fetch_network_error_Retry ==
  /\ pc = "get"
  /\ \E f \in Failures :
       /\ resp' = f
       /\ console' = Append(console, Message(NetworkErrorLabel, f.text))
  /\ data' = PyNone
  /\ pc' = "fetch"
  /\ UNCHANGED <<env_key, args, API_KEY, gets, request, exit_code, exc>>

\* except requests.exceptions.RequestException as e
fetch_network_error ==
  /\ pc = "get"
  /\ \E f \in Failures :
       /\ resp' = f
       /\ console' = Append(console, Message(NetworkErrorLabel, f.text))
  /\ data' = PyNone
  /\ pc' = "fetched"
  /\ UNCHANGED <<env_key, args, API_KEY, gets, request, exit_code, exc>>

\* resp.json().get("message", "Unknown HTTP error"), any exception giving
\* the default.
ErrorMessage(body) ==
  IF ~body.valid THEN PyStr("Unknown HTTP error")
  ELSE IF body.value.t # "dict" THEN PyStr("Unknown HTTP error")
  ELSE Get(body.value, "message", PyStr("Unknown HTTP error"))

\* except requests.exceptions.HTTPError
fetch_http_error ==
  /\ pc = "get"
  /\ \E r \in Responses :
       /\ RaisesForStatus(r.status)
       /\ resp' = r
       /\ console' = Append(console,
                             Message("API error:", PyFormat(ErrorMessage(r.body))))
  /\ data' = PyNone
  /\ pc' = "fetched"
  /\ UNCHANGED <<env_key, args, API_KEY, gets, request, exit_code, exc>>

\* return resp.json()
fetch_return_json ==
  /\ pc = "get"
  /\ \E r \in Responses :
       /\ ~RaisesForStatus(r.status)
       /\ r.body.valid
       /\ resp' = r
       /\ data' = r.body.value
  /\ pc' = "fetched"
  /\ UNCHANGED <<env_key, args, API_KEY, gets, request, console, exit_code, exc>>

\* return resp.json(), the body not JSON: the call is outside the try block,
\* so the JSONDecodeError leaves fetch_current_weather and main.
fetch_json_decode_error ==
  /\ pc = "get"
  /\ \E r \in Responses :
       /\ ~RaisesForStatus(r.status)
       /\ ~r.body.valid
       /\ resp' = r
  /\ exc' = [type |-> "JSONDecodeError", raised_in |-> "fetch_current_weather"]
  /\ exit_code' = 1
  /\ pc' = "crashed"
  /\ UNCHANGED <<env_key, args, API_KEY, gets, request, data, console>>

\* if data: pretty_render(data, args.units), then the end of main.
main_render ==
  /\ pc = "fetched"
  /\ Truthy(data)
  /\ LET r == pretty_render(data, args.units)
     IN  /\ console' = console \o r.out
         /\ IF r.exc = "none"
            THEN /\ exc' = exc
                 /\ exit_code' = 0
                 /\ pc' = "done"
            ELSE /\ exc' = [type |-> r.exc, raised_in |-> "pretty_render"]
                 /\ exit_code' = 1
                 /\ pc' = "crashed"
  /\ UNCHANGED <<env_key, args, API_KEY, gets, request, resp, data>>

\* data is None or empty: main returns without rendering.
main_no_data ==
  /\ pc = "fetched"
  /\ ~Truthy(data)
  /\ exit_code' = 0
  /\ pc' = "done"
  /\ UNCHANGED <<env_key, args, API_KEY, gets, request, resp, data, console, exc>>

Next ==
  \/ main_parse_args
  \/ fetch_missing_key
  \/ fetch_send_get
  \/ fetch_network_error
  \/ fetch_http_error
  \/ fetch_return_json
  \/ fetch_json_decode_error
  \/ main_render
  \/ main_no_data

Spec == Init /\ [][Next]_vars

(***************************************************************************)
(* What the properties below speak of.                                     *)
(***************************************************************************)
Terminated == pc \in {"done", "exited", "crashed"}

\* Some part of the weather display (header, condition line, table) is on
\* the console.
Rendered == \E i \in DOMAIN console : console[i].kind \in {"panel", "condition", "table"}

\* An error line with this label is on the console.
Shown(label) ==
  \E i \in DOMAIN console : console[i].kind = "message" /\ console[i].label = label

ErrorShown == \E i \in DOMAIN console : console[i].kind = "message"

ItemOf(kind) == console[CHOOSE i \in DOMAIN console : console[i].kind = kind]

Has(d, k) == d.t = "dict" /\ k \in DOMAIN d.v

HasIn(d, k1, k2) == Has(d, k1) /\ Has(d.v[k1], k2)

HasDescription(d) ==
  Has(d, "weather") /\ Has(d.v["weather"].v[1], "description")

\* pretty_render has run on a JSON object.
RenderRan == pc \in {"done", "crashed"} /\ Truthy(data) /\ data.t = "dict"

Is2xx(status) == 200 <= status /\ status < 300

\* A key is available to the run: in the environment or by the flag.
KeyAvailable == Truthy(env_key) \/ Truthy(args.apikey)

RowLabels == <<"Temperature", "Humidity", "Wind Speed", "Sunrise", "Sunset">>

\* The readings of each observation of Sample as Python prints them.
ExpectedText(i) ==
  CASE i = 1 -> [temp |-> "28", feels_like |-> "30.2", humidity |-> "74", speed |-> "3"]
    [] i = 2 -> [temp |-> "21.5", feels_like |-> "19.8", humidity |-> "60", speed |-> "4.1"]
    [] OTHER -> [temp |-> "-3.5", feels_like |-> "-7.0", humidity |-> "81", speed |-> "12.3"]

ExpectedTempSuffix(units) ==
  CASE units = "metric" -> "°C"
    [] units = "imperial" -> "°F"
    [] units = "standard" -> "K"

(***************************************************************************)
(* C1.  A run with the environment key unset or empty and no -k flag       *)
(* prints the configuration error and exits with code 1; it issues no GET  *)
(* and renders nothing.                                                    *)
(***************************************************************************)
C1_MissingKeyIsFatal ==
  (~Truthy(env_key) /\ args.apikey = PyNone) =>
    /\ gets = 0
    /\ request = PyNone
    /\ pc \in {"main", "fetch", "exited"}
    /\ ~Rendered
    /\ (pc = "fetch" => ENABLED fetch_missing_key /\ ~ENABLED fetch_send_get)
    /\ (Terminated =>
          /\ pc = "exited"
          /\ exit_code = 1
          /\ console = <<Message("ERROR:", "OPENWEATHER_API_KEY not set in .env")>>)

C1_Witness ==
  pc = "exited" /\ env_key = PyNone /\ args.apikey = PyNone /\ exit_code = 1

(***************************************************************************)
(* C2.  Every response whose status is not 2xx ends fetch_current_weather  *)
(* with an "API error:" line and None: the line carries the body's         *)
(* "message" when the body is a JSON object with one, and "Unknown HTTP    *)
(* error" otherwise; nothing is rendered.                                  *)
(***************************************************************************)
C2_ExpectedMessage(body) ==
  IF body.valid /\ Has(body.value, "message")
  THEN body.value.v["message"].v
  ELSE "Unknown HTTP error"

C2_NonSuccessIsApiError ==
  (resp.kind = "response" /\ ~Is2xx(resp.status)) =>
    /\ data = PyNone
    /\ console = <<Message("API error:", C2_ExpectedMessage(resp.body))>>
    /\ exc = NoException
    /\ ~Rendered

\* The same for the statuses raise_for_status raises on, 4xx and 5xx: this
\* much of C2 holds.
C2_ErrorStatusIsApiError ==
  (resp.kind = "response" /\ resp.status >= 400) =>
    /\ data = PyNone
    /\ console = <<Message("API error:", C2_ExpectedMessage(resp.body))>>
    /\ exc = NoException
    /\ ~Rendered

(***************************************************************************)
(* C3.  A transport failure of the GET prints a "Network error:" line and  *)
(* no "API error:" line, fetch_current_weather returns None, nothing is    *)
(* rendered and the process ends normally with exit code 0.                *)
(***************************************************************************)
C3_TransportFailureIsNetworkError ==
  resp.kind = "failure" =>
    /\ data = PyNone
    /\ console = <<Message("Network error:", resp.text)>>
    /\ ~Shown("API error:")
    /\ ~Rendered
    /\ exc = NoException
    /\ pc \in {"fetched", "done"}
    /\ (pc = "fetched" => ENABLED main_no_data /\ ~ENABLED main_render)
    /\ (pc = "done" => exit_code = 0)

C3_Witness ==
  pc = "done" /\ resp.kind = "failure" /\ resp.error = "ReadTimeout" /\ exit_code = 0

(***************************************************************************)
(* C4.  When pretty_render runs on a fetched JSON object without           *)
(* sys.sunrise (likewise sys.sunset), it completes without raising, the    *)
(* Sunrise (Sunset) row shows "N/A", and the table still has all its rows. *)
(***************************************************************************)
C4_MissingSunriseIsPlaceholder ==
  (RenderRan /\ (~HasIn(data, "sys", "sunrise") \/ ~HasIn(data, "sys", "sunset"))) =>
    /\ pc = "done"
    /\ exc = NoException
    /\ exit_code = 0
    /\ \E i \in DOMAIN console : console[i].kind = "table"
    /\ LET rows == ItemOf("table").rows
       IN  /\ [i \in DOMAIN rows |-> rows[i][1]] = RowLabels
           /\ ~HasIn(data, "sys", "sunrise") => rows[4][2] = "N/A"
           /\ ~HasIn(data, "sys", "sunset") => rows[5][2] = "N/A"
           /\ HasIn(data, "sys", "sunrise") => rows[4][2] # "N/A"
           /\ HasIn(data, "sys", "sunset") => rows[5][2] # "N/A"

C4_Witness ==
  /\ pc = "done"
  /\ Has(data, "sys") /\ ~HasIn(data, "sys", "sunrise") /\ HasIn(data, "sys", "sunset")
  /\ HasIn(data, "main", "temp")
  /\ Rendered

(***************************************************************************)
(* C5.  For every unit mode and every body with all fields present, the    *)
(* table shows the exact temperature and feels-like value followed by the  *)
(* mode's suffix, the exact humidity followed by "%", and the exact wind   *)
(* speed followed by "mph" for imperial and "m/s" for any other mode.      *)
(***************************************************************************)
C5_ExactValuesWithUnitSuffix ==
  \A i \in 1..NumSamples :
    (pc = "done" /\ Truthy(data) /\ data.t = "dict" /\ data = FullObservation(Sample(i))) =>
      LET rows == ItemOf("table").rows
          text == ExpectedText(i)
          suffix == ExpectedTempSuffix(args.units)
      IN  /\ rows[1] = <<"Temperature",
                         text.temp \o " " \o suffix \o " (Feels like "
                           \o text.feels_like \o suffix \o ")">>
          /\ rows[2] = <<"Humidity", text.humidity \o "%">>
          /\ rows[3] = <<"Wind Speed",
                         text.speed \o " " \o
                           (IF args.units = "imperial" THEN "mph" ELSE "m/s")>>

C5_Witness ==
  /\ pc = "done"
  /\ data = FullObservation(Sample(2))
  /\ args.units = "standard"
  /\ ItemOf("table").rows[1] = <<"Temperature", "21.5 K (Feels like 19.8K)">>

(***************************************************************************)
(* C6.  When pretty_render runs on a fetched JSON object, whatever subset  *)
(* of the observation's fields is absent, it completes without raising and *)
(* every absent field is shown as a placeholder; an absent dt shows the    *)
(* time placeholder "N/A" in the header as an absent sunrise does in the   *)
(* table.                                                                  *)
(***************************************************************************)
C6_OtherFieldsArePlaceholders ==
  /\ pc = "done"
  /\ exc = NoException
  /\ LET rows == ItemOf("table").rows
         header == ItemOf("panel")
     IN  /\ ~HasIn(data, "sys", "sunrise") => rows[4][2] = "N/A"
         /\ ~HasIn(data, "sys", "sunset") => rows[5][2] = "N/A"
         /\ (~HasIn(data, "main", "temp") /\ ~HasIn(data, "main", "feels_like")) =>
              rows[1][2] = "N/A " \o ExpectedTempSuffix(args.units) \o " (Feels like N/A"
                             \o ExpectedTempSuffix(args.units) \o ")"
         /\ ~HasIn(data, "main", "humidity") => rows[2][2] = "N/A%"
         /\ ~HasIn(data, "wind", "speed") =>
              rows[3][2] \in {"N/A m/s", "N/A mph"}
         /\ ~HasDescription(data) => ItemOf("condition").text = "N/A"
         /\ (~Has(data, "name") /\ ~HasIn(data, "sys", "country")) =>
              header.title = " Weather - Unknown,  "

C6_EveryAbsentFieldIsPlaceholder ==
  RenderRan =>
    /\ C6_OtherFieldsArePlaceholders
    /\ ~Has(data, "dt") => ItemOf("panel").time = " Local time (approx): N/A "

\* The same without the clause on dt: this much of C6 holds.
C6_AbsentFieldsButDt == RenderRan => C6_OtherFieldsArePlaceholders

(***************************************************************************)
(* C7.  A run issues at most one GET, whatever its outcome, and exactly    *)
(* one when an API key is available.                                       *)
(***************************************************************************)
C7_AtMostOneGet ==
  /\ gets <= 1
  /\ pc \in {"get", "fetched", "done", "crashed"} => gets = 1
  /\ Terminated => (gets = 1 <=> KeyAvailable)
  /\ (pc = "fetched" \/ Terminated) => ~ENABLED fetch_send_get

C7_Witness ==
  pc = "done" /\ gets = 1 /\ resp.kind = "failure" /\ KeyAvailable

(***************************************************************************)
(* C8.  The appid sent is the -k value whenever the flag is given, and the *)
(* environment's value otherwise; so a run with the environment key unset  *)
(* and a -k value given issues the request instead of exiting.             *)
(***************************************************************************)
C8_FlagAlwaysWins ==
  /\ gets > 0 =>
       request.params.appid = (IF args.apikey.t # "none" THEN args.apikey ELSE env_key)
  /\ (Terminated /\ ~Truthy(env_key) /\ args.apikey.t # "none") =>
       (gets = 1 /\ pc # "exited")

\* C8 as amended: the flag wins whenever it is given a non-empty value; an
\* empty -k value is ignored like an absent flag.
C8_NonEmptyFlagWins ==
  /\ gets > 0 =>
       request.params.appid = (IF Truthy(args.apikey) THEN args.apikey ELSE env_key)
  /\ (Terminated /\ ~Truthy(env_key) /\ Truthy(args.apikey)) =>
       (gets = 1 /\ pc # "exited")
  /\ (Terminated /\ ~Truthy(env_key) /\ ~Truthy(args.apikey)) =>
       (gets = 0 /\ pc = "exited")

C8_Witness ==
  /\ Terminated
  /\ env_key = PyNone
  /\ args.apikey = PyStr("ARGKEY")
  /\ gets = 1
  /\ request.params.appid = PyStr("ARGKEY")

(***************************************************************************)
(* C9.  Whatever the outcome of the GET (a transport failure, a non-2xx    *)
(* status, a 2xx body that is not JSON), no exception leaves               *)
(* fetch_current_weather: it returns the parsed body, or prints a message  *)
(* and returns None.                                                       *)
(***************************************************************************)
C9_FetchNeverRaises ==
  resp.kind # "none" =>
    /\ exc.raised_in # "fetch_current_weather"
    /\ \/ /\ resp.kind = "response"
          /\ resp.body.valid
          /\ data = resp.body.value
          /\ ~ErrorShown
       \/ /\ data = PyNone
          /\ ErrorShown

(***************************************************************************)
(* C10.  Output is rendered only if the GET returned a 2xx status and the  *)
(* parsed body is truthy; no run shows both an error line and rendered     *)
(* output; a 2xx response with an empty JSON body ({}, [] or null) prints  *)
(* nothing and exits with code 0.                                          *)
(***************************************************************************)
C10_RenderOnlyOn2xx ==
  /\ Rendered =>
       /\ resp.kind = "response"
       /\ Is2xx(resp.status)
       /\ resp.body.valid
       /\ Truthy(resp.body.value)
  /\ ~(Rendered /\ ErrorShown)
  /\ (Terminated /\ resp.kind = "response" /\ Is2xx(resp.status)
        /\ resp.body.valid /\ ~Truthy(resp.body.value)) =>
       (console = <<>> /\ pc = "done" /\ exit_code = 0)

\* The same with "no exception raised by raise_for_status" in place of
\* "2xx": this much of C10 holds.
C10_RenderOnlyOnSuccess ==
  /\ Rendered =>
       /\ resp.kind = "response"
       /\ ~RaisesForStatus(resp.status)
       /\ resp.body.valid
       /\ Truthy(resp.body.value)
  /\ ~(Rendered /\ ErrorShown)
  /\ (Terminated /\ resp.kind = "response" /\ ~RaisesForStatus(resp.status)
        /\ resp.body.valid /\ ~Truthy(resp.body.value)) =>
       (console = <<>> /\ pc = "done" /\ exit_code = 0)

====
